---------------------------- MODULE Spec2Model ----------------------------
(***************************************************************************)
(* State-machine model of the Dataloop <-> Databricks integration nodes:   *)
(*   nodes/finetuning_llms/finetuning_llm.py   (ensure_cluster_running,    *)
(*                                              run_train)                 *)
(*   nodes/import_export/databricks_base.py    (call_databricks_query,     *)
(*       update_table, download_file_from_volume,                          *)
(*       upload_dbrx_folder_to_dtlp, upload_item_to_volume)                *)
(*                                                                         *)
(* The service runner serves one entry point per invocation; `op` is the   *)
(* entry point of the invocation and `pc` the position of its calling      *)
(* thread.  The external clients (cluster management, model training, SQL  *)
(* driver, annotation platform) are the environment: every call to one of  *)
(* them is a nondeterministic choice over the outcomes it can produce.     *)
(***************************************************************************)
EXTENDS Naturals, Integers, Sequences, FiniteSets

(***************************** bounds ***********************************)
\* Longest sequence of cluster states the cluster-management client returns.
MaxPolls == 4
\* Largest Transfer Batch returned by LIST (one more than the pool size).
NumFiles == 6
\* Longest annotation list of an item.
MaxAnn == 2

(************************ program constants *****************************)
\* finetuning_llm.py: attempts = 3
attempts == 3
\* databricks_base.py: self.max_workers = 5
max_workers == 5
\* databricks_base.py: prompt_item.name[:-5]
SuffixLen == 5

(*********************** ensure_cluster_running *************************)
ClusterStates == {"RUNNING", "PENDING", "RESTARTING", "TERMINATED", "ERROR"}

\* Mutant: PENDING is taken for a running cluster.
PollBranchPendingBreaks(s) ==
    IF s \in {"RUNNING", "PENDING"} THEN "break"
    ELSE IF s = "RESTARTING" THEN "wait" ELSE "start"

\* Mutant: only PENDING is transitional, RESTARTING issues a start.
PollBranchStartsOnRestarting(s) ==
    IF s = "RUNNING" THEN "break"
    ELSE IF s = "PENDING" THEN "wait" ELSE "start"

\* The if / elif / else on cluster_info.state.name of one loop iteration.
PollBranch(s) ==
    IF s = "RUNNING" THEN "break"
    ELSE IF s \in {"PENDING", "RESTARTING"} THEN "wait"
    ELSE "start"

(****************************** run_train *******************************)
CreateOutcomes == {"ok", "timeout", "error"}

\* Mutant: `except Exception` instead of `except TimeoutError`.
AfterCreateCatchAll(outcome) ==
    IF outcome = "ok" THEN "break" ELSE "backoff"

\* try / break / except TimeoutError around fm.create.
AfterCreate(outcome) ==
    IF outcome = "ok" THEN "break"
    ELSE IF outcome = "timeout" THEN "backoff"
    ELSE "raise"

\* Mutant: the loop raises once the attempts are used up.
AfterBackoffRaises(a) ==
    IF a + 1 < attempts THEN "rt_create" ELSE "raised"

\* End of one iteration of `for attempt in range(attempts)`: the next
\* iteration, or falling off the end of the function.
AfterBackoff(a) ==
    IF a + 1 < attempts THEN "rt_create" ELSE "returned"

(************************ call_databricks_query *************************)
\* Leading keyword of the stripped, upper-cased statement text.
Keywords == {"SELECT", "LIST", "UPDATE", "GET", "PUT"}
\* Exceptions of the SQL driver / credential exchange (all Exception subclasses).
DriverErrors == {"RequestError", "ServerOperationError"}
NoParams == << >>

IsRead(kw) == kw \in {"SELECT", "LIST"}

\* A call of call_databricks_query about to enter its try block.
QNew(kw, params) ==
    [pc |-> "connect", kw |-> kw, params |-> params, sent |-> "none",
     conn |-> "none", opened |-> 0, executed |-> FALSE,
     occurred |-> {}, pending |-> "none",
     result |-> "none", raisedType |-> "none", cause |-> "none"]

\* Mutant: the connection is not managed by a `with` block, an error in the
\* body goes straight to the except clause.
OnBodyErrorNoClose(q, e) ==
    [q EXCEPT !.pending = e, !.occurred = @ \cup {e}, !.pc = "except"]

\* An exception raised inside the `with sql.connect(...) as connection` body
\* unwinds through the context manager's __exit__.
OnBodyError(q, e) ==
    [q EXCEPT !.pending = e, !.occurred = @ \cup {e}, !.pc = "exit"]

\* Mutant: the driver's exception is re-raised as it is.
ReraiseBare(q) ==
    [q EXCEPT !.raisedType = q.pending, !.cause = "none",
              !.result = "none", !.pc = "raised"]

\* except Exception as e: log, raise RuntimeError(...) from e
Reraise(q) ==
    [q EXCEPT !.raisedType = "RuntimeError", !.cause = q.pending,
              !.result = "none", !.pc = "raised"]

QTerminal == {"returned", "raised"}
\* The steps of the call at which an external call can raise.
QFailPoints == {"connect", "cursor", "execute", "fetch", "commit",
                "close_cursor", "exit"}

\* One step of call_databricks_query; `fail` is what the external call of the
\* step raises ("none": it returns).
QStep(q, fail) ==
    CASE q.pc = "connect" ->
            IF fail = "none"
            THEN [q EXCEPT !.conn = "open", !.opened = @ + 1, !.pc = "cursor"]
            ELSE [q EXCEPT !.pending = fail, !.occurred = @ \cup {fail},
                           !.pc = "except"]
      [] q.pc = "cursor" ->
            IF fail = "none" THEN [q EXCEPT !.pc = "execute"]
            ELSE OnBodyError(q, fail)
      [] q.pc = "execute" ->
            IF fail = "none"
            THEN [q EXCEPT !.executed = TRUE,
                           !.sent = IF q.params # NoParams
                                    THEN <<q.kw, q.params>> ELSE <<q.kw>>,
                           !.pc = IF IsRead(q.kw) THEN "fetch" ELSE "commit"]
            ELSE OnBodyError(q, fail)
      [] q.pc = "fetch" ->
            IF fail = "none"
            THEN [q EXCEPT !.result = "rows", !.pc = "close_cursor"]
            ELSE OnBodyError(q, fail)
      [] q.pc = "commit" ->
            IF fail = "none"
            THEN [q EXCEPT !.result = "rowcount", !.pc = "close_cursor"]
            ELSE OnBodyError(q, fail)
      [] q.pc = "close_cursor" ->
            IF fail = "none" THEN [q EXCEPT !.pc = "exit"]
            ELSE OnBodyError(q, fail)
      [] q.pc = "exit" ->
            LET p == IF fail = "none" THEN q.pending ELSE fail
            IN  [q EXCEPT !.conn = "closed", !.pending = p,
                          !.occurred = IF fail = "none" THEN @ ELSE @ \cup {fail},
                          !.pc = IF p = "none" THEN "returned" ELSE "except"]
      [] q.pc = "except" -> Reraise(q)
      [] OTHER -> q

\* Where, if anywhere, one whole call fails.
NoFault == [at |-> "nowhere", err |-> "none"]
Plans == {NoFault} \cup {[at |-> s, err |-> e] : s \in QFailPoints, e \in DriverErrors}

RECURSIVE QRun(_, _)
\* A whole call, run to its return or raise under the fault plan.
QRun(q, plan) ==
    IF q.pc \in QTerminal THEN q
    ELSE QRun(QStep(q, IF q.pc = plan.at THEN plan.err ELSE "none"), plan)

(***************************** update_table *****************************)
\* The key of the item's first prompt (prompt_item.prompts[0].key).
first_prompt_key == "k1"
PromptIds == {"k1", "k2", "absent"}
\* attributes: a dict with isBest set, a dict without it, or not a dict at all.
AttrKinds == {"best", "plain", "nodict"}
\* metadata.user.model: missing, or a dict with model_id and name.
ModelKinds == {"absent", "set"}
Digits == <<"0", "1", "2", "3", "4", "5", "6", "7", "8", "9">>
\* The extension the platform gives a prompt item's name.
JsonSuffix == <<".", "j", "s", "o", "n">>
\* Primary keys of the rows the items were created from.
RowIds == {7, 42}
ValueError == -1

RECURSIVE Str(_)
\* str(n) for n >= 0, as a sequence of characters.
Str(n) == IF n < 10 THEN <<Digits[n + 1]>>
          ELSE Str(n \div 10) \o <<Digits[(n % 10) + 1]>>

\* create_table names the prompt item of a row str(res.id); the platform
\* stores it with the .json extension.
ItemName(id) == Str(id) \o JsonSuffix

DigitValue(c) ==
    IF \E d \in 1..10 : Digits[d] = c
    THEN (CHOOSE d \in 1..10 : Digits[d] = c) - 1
    ELSE ValueError

RECURSIVE ParseDigits(_, _)
ParseDigits(s, acc) ==
    IF s = << >> THEN acc
    ELSE IF DigitValue(Head(s)) = ValueError THEN ValueError
    ELSE ParseDigits(Tail(s), 10 * acc + DigitValue(Head(s)))

\* int(text) on a sequence of characters: ValueError unless all are digits.
ParseInt(s) == IF s = << >> THEN ValueError ELSE ParseDigits(s, 0)

\* int(prompt_item.name[:-5])
RecoverId(name) ==
    ParseInt(IF Len(name) > SuffixLen
             THEN SubSeq(name, 1, Len(name) - SuffixLen) ELSE << >>)

\* try: resp.attributes.get("isBest", False) except AttributeError: False
IsBest(a) == IF a.attrs = "nodict" THEN FALSE ELSE a.attrs = "best"

\* Mutant: any annotation flagged best is taken, whatever prompt it answers.
MatchesAnyPrompt(a, key) == IsBest(a)

\* is_best and resp.metadata["system"].get("promptId") == first_prompt_key
Matches(a, key) == IsBest(a) /\ a.promptId = key

RECURSIVE FindBestFrom(_, _, _)
FindBestFrom(anns, key, i) ==
    IF i > Len(anns) THEN 0
    ELSE IF Matches(anns[i], key) THEN i
    ELSE FindBestFrom(anns, key, i + 1)

\* The scan of item.annotations.list(): the first match (break), 0 if none.
FindBest(anns, key) == FindBestFrom(anns, key, 1)

\* model_info.get("model_id", "") / model_info.get("name", "human")
ModelId(a) == IF a.model = "set" THEN "model-1" ELSE ""
ModelName(a) == IF a.model = "set" THEN "model-name" ELSE "human"

\* params = (best_response, model_id, name, int(prompt_item.name[:-5]))
UpdateParams(a, id) == <<a.coordinates, ModelId(a), ModelName(a), id>>

\* The annotation lists of an item: the i-th annotation carries response i.
Annotation(i) ==
    [attrs : AttrKinds, promptId : PromptIds, model : ModelKinds,
     coordinates : {<<"response", i>>}]
AnnotationLists ==
    UNION {{s \in [1..n -> UNION {Annotation(i) : i \in 1..n}] :
              \A i \in 1..n : s[i] \in Annotation(i)} : n \in 0..MaxAnn}

(******************* upload_dbrx_folder_to_dtlp *************************)
TaskTerminal == {"ok", "failed", "failed_late"}

\* Mutant: future.result() is called outside a try, a failed download
\* propagates out of the join loop.
OnFutureResultUncaught(failed) == IF failed THEN "raise" ELSE "continue"

\* try: future.result() except Exception as e: self.logger.error(...)
OnFutureResult(failed) == "continue"

(******************************* state **********************************)
VARIABLES
    op,         \* entry point served by this invocation
    pc,         \* position of the calling thread
    ret,        \* value returned to the caller ("none" while running or raised)
    raisedBy,   \* what made the entry point raise ("none" if it has not)
    observed,   \* ensure_cluster_running: states returned by clusters.get, in order
    starts,     \* ensure_cluster_running: poll numbers after which clusters.start was called
    sleeps,     \* ensure_cluster_running: time.sleep(10) calls of the polling loop
    creates,    \* run_train: outcomes of the fm.create calls, in order
    backoffs,   \* run_train: time.sleep(10) calls of the retry loop
    job,        \* run_train: a fine-tuning job was created
    q,          \* call_databricks_query: the calling thread's call in progress / last call
    anns,       \* update_table: item.annotations.list()
    itemName,   \* update_table: prompt_item.name, a sequence of characters
    issued,     \* statements the calling thread passed to call_databricks_query
    tempFile,   \* upload_item_to_volume: the file written by item.download
    nfiles,     \* upload_dbrx_folder_to_dtlp: size of the batch LIST returned
    nsub,       \* upload_dbrx_folder_to_dtlp: futures submitted so far
    task,       \* upload_dbrx_folder_to_dtlp: state of each file's download
    scratch,    \* upload_dbrx_folder_to_dtlp: files in the local scratch folder
    joinedOk,   \* upload_dbrx_folder_to_dtlp: futures the join loop consumed, result returned
    joinedFail, \* upload_dbrx_folder_to_dtlp: futures the join loop consumed, exception logged
    uploaded    \* upload_dbrx_folder_to_dtlp: files handed to dataset.items.upload

launcherVars == <<observed, starts, sleeps, creates, backoffs, job>>
tableVars == <<anns, itemName>>
folderVars == <<nfiles, nsub, task, scratch, joinedOk, joinedFail, uploaded>>
vars == <<op, pc, ret, raisedBy, launcherVars, q, tableVars, issued, tempFile,
          folderVars>>

QIdle == QNew("SELECT", NoParams)
Files == 1..NumFiles

LauncherIdle ==
    /\ observed = << >> /\ starts = << >> /\ sleeps = 0
    /\ creates = << >> /\ backoffs = 0 /\ job = FALSE
TableIdle == anns = << >> /\ itemName = << >>
FolderIdle ==
    /\ nfiles = 0 /\ nsub = 0 /\ task = [k \in Files |-> "none"]
    /\ scratch = {} /\ joinedOk = 0 /\ joinedFail = 0 /\ uploaded = {}
Common ==
    /\ ret = "none" /\ raisedBy = "none" /\ issued = << >> /\ tempFile = "absent"

InitRunTrain ==
    /\ op = "run_train" /\ pc = "ecr_poll"
    /\ Common /\ LauncherIdle /\ TableIdle /\ FolderIdle /\ q = QIdle

InitQuery ==
    /\ op = "call_databricks_query" /\ pc = "query"
    /\ Common /\ LauncherIdle /\ TableIdle /\ FolderIdle
    /\ \E kw \in Keywords, params \in {NoParams, <<"p1">>} : q = QNew(kw, params)

InitUpdateTable ==
    /\ op = "update_table" /\ pc = "ut_scan"
    /\ Common /\ LauncherIdle /\ FolderIdle /\ q = QIdle
    /\ anns \in AnnotationLists
    /\ \E id \in RowIds : itemName = ItemName(id)

InitUploadItem ==
    /\ op = "upload_item_to_volume" /\ pc = "ui_download"
    /\ Common /\ LauncherIdle /\ TableIdle /\ FolderIdle /\ q = QIdle

InitUploadFolder ==
    /\ op = "upload_dbrx_folder_to_dtlp" /\ pc = "uf_list"
    /\ Common /\ LauncherIdle /\ TableIdle /\ FolderIdle /\ q = QIdle

Init ==
    \/ InitRunTrain
    \/ InitQuery
    \/ InitUpdateTable
    \/ InitUploadItem
    \/ InitUploadFolder

(*********************** ensure_cluster_running *************************)
notLauncher == <<q, tableVars, issued, tempFile, folderVars>>

\* cluster_info = client.clusters.get(cluster_id) and the branch on its state
Poll ==
    /\ pc = "ecr_poll"
    /\ Len(observed) < MaxPolls
    /\ \E s \in ClusterStates :
          /\ observed' = Append(observed, s)
          /\ pc' = CASE PollBranch(s) = "break" -> "rt_create"
                     [] PollBranch(s) = "wait"  -> "ecr_sleep"
                     [] OTHER                   -> "ecr_start"
    /\ UNCHANGED <<op, ret, raisedBy, starts, sleeps, creates, backoffs, job,
                   notLauncher>>

\* client.clusters.start(cluster_id)
StartCluster ==
    /\ pc = "ecr_start"
    /\ starts' = Append(starts, Len(observed))
    /\ pc' = "ecr_sleep"
    /\ UNCHANGED <<op, ret, raisedBy, observed, sleeps, creates, backoffs, job,
                   notLauncher>>

\* time.sleep(10) at the end of the loop body
SleepPoll ==
    /\ pc = "ecr_sleep"
    /\ sleeps' = sleeps + 1
    /\ pc' = "ecr_poll"
    /\ UNCHANGED <<op, ret, raisedBy, observed, starts, creates, backoffs, job,
                   notLauncher>>

(****************************** run_train *******************************)
\* run = fm.create(...) inside the try of one loop iteration
Create ==
    /\ pc = "rt_create"
    /\ \E outcome \in CreateOutcomes :
          /\ creates' = Append(creates, outcome)
          /\ job' = (outcome = "ok")
          /\ pc' = CASE AfterCreate(outcome) = "break"   -> "returned"
                     [] AfterCreate(outcome) = "backoff" -> "rt_backoff"
                     [] OTHER                            -> "raised"
          /\ ret' = IF pc' = "returned" THEN "None" ELSE ret
          /\ raisedBy' = IF pc' = "raised" THEN "fm.create" ELSE raisedBy
    /\ UNCHANGED <<op, observed, starts, sleeps, backoffs, notLauncher>>

\* except TimeoutError: print, time.sleep(10); then the next iteration
Backoff ==
    /\ pc = "rt_backoff"
    /\ backoffs' = backoffs + 1
    /\ pc' = AfterBackoff(backoffs)
    /\ ret' = IF pc' = "returned" THEN "None" ELSE ret
    /\ raisedBy' = IF pc' = "raised" THEN "retries" ELSE raisedBy
    /\ UNCHANGED <<op, observed, starts, sleeps, creates, job, notLauncher>>

(************************ call_databricks_query *************************)
QAt(step) == op = "call_databricks_query" /\ pc = "query" /\ q.pc = step

QueryStepWith(fails) ==
    /\ \E fail \in fails : q' = QStep(q, fail)
    /\ pc' = IF q'.pc \in QTerminal THEN q'.pc ELSE pc
    /\ ret' = IF q'.pc = "returned" THEN q'.result ELSE ret
    /\ raisedBy' = IF q'.pc = "raised" THEN "query" ELSE raisedBy
    /\ issued' = IF q.pc = "connect" THEN Append(issued, <<q.kw, q.params>>)
                 ELSE issued
    /\ UNCHANGED <<op, launcherVars, tableVars, tempFile, folderVars>>

Outcomes == {"none"} \cup DriverErrors

\* sql.connect(...), which calls credential_provider
Connect == QAt("connect") /\ QueryStepWith(Outcomes)
\* cursor = connection.cursor()
OpenCursor == QAt("cursor") /\ QueryStepWith(Outcomes)
\* cursor.execute(query[, params])
Execute == QAt("execute") /\ QueryStepWith(Outcomes)
\* result = cursor.fetchall()
Fetch == QAt("fetch") /\ QueryStepWith(Outcomes)
\* connection.commit(); result = cursor.rowcount
Commit == QAt("commit") /\ QueryStepWith(Outcomes)
\* cursor.close(); return result
CloseCursor == QAt("close_cursor") /\ QueryStepWith(Outcomes)
\* leaving the with block: connection.__exit__ closes the connection
ExitWith == QAt("exit") /\ QueryStepWith(Outcomes)
\* except Exception as e
Except == QAt("except") /\ QueryStepWith({"none"})

(***************************** update_table *****************************)
\* prompt_item / first_prompt_key, the scan for the best response, the
\* early return, and the construction of the UPDATE's params
UpdateTableScan ==
    /\ pc = "ut_scan"
    /\ LET i  == FindBest(anns, first_prompt_key)
           id == RecoverId(itemName)
       IN  IF i = 0
           THEN /\ pc' = "returned" /\ ret' = "None"
                /\ UNCHANGED <<q, raisedBy>>
           ELSE IF id = ValueError
           THEN /\ pc' = "raised" /\ raisedBy' = "ValueError"
                /\ UNCHANGED <<q, ret>>
           ELSE /\ pc' = "ut_query"
                /\ q' = QNew("UPDATE", UpdateParams(anns[i], id))
                /\ UNCHANGED <<ret, raisedBy>>
    /\ UNCHANGED <<op, launcherVars, tableVars, issued, tempFile, folderVars>>

\* self.call_databricks_query(..., query, params); return item
UpdateTableQuery ==
    /\ pc = "ut_query"
    /\ \E plan \in Plans : q' = QRun(q, plan)
    /\ issued' = Append(issued, <<q.kw, q.params>>)
    /\ pc' = q'.pc
    /\ ret' = IF q'.pc = "returned" THEN "item" ELSE ret
    /\ raisedBy' = IF q'.pc = "raised" THEN "query" ELSE raisedBy
    /\ UNCHANGED <<op, launcherVars, tableVars, tempFile, folderVars>>

(************************ upload_item_to_volume *************************)
\* file_path = item.download(save_locally=True); the PUT statement
UploadItemDownload ==
    /\ pc = "ui_download"
    /\ tempFile' = "present"
    /\ q' = QNew("PUT", NoParams)
    /\ pc' = "ui_put"
    /\ UNCHANGED <<op, ret, raisedBy, launcherVars, tableVars, issued, folderVars>>

\* self.call_databricks_query(..., query, tempdir=...)
UploadItemPut ==
    /\ pc = "ui_put"
    /\ \E plan \in Plans : q' = QRun(q, plan)
    /\ issued' = Append(issued, <<q.kw, q.params>>)
    /\ pc' = IF q'.pc = "raised" THEN "raised" ELSE "ui_remove"
    /\ raisedBy' = IF q'.pc = "raised" THEN "query" ELSE raisedBy
    /\ UNCHANGED <<op, ret, launcherVars, tableVars, tempFile, folderVars>>

\* os.remove(file_path); return item
UploadItemRemove ==
    /\ pc = "ui_remove"
    /\ tempFile' = "absent"
    /\ ret' = "item"
    /\ pc' = "returned"
    /\ UNCHANGED <<op, raisedBy, launcherVars, q, tableVars, issued, folderVars>>

(******************* upload_dbrx_folder_to_dtlp *************************)
Running == {k \in Files : task[k] = "running"}
Completed == {k \in Files : task[k] \in TaskTerminal}
Succeeded == {k \in Files : task[k] = "ok"}

\* ThreadPoolExecutor(max_workers=self.max_workers): a queued work item is
\* taken only by one of the pool's workers that is not running another.
HasIdleWorker == Cardinality(Running) < max_workers

\* Mutant: the futures are never waited for.
AllJoinedNoWait == TRUE

\* The end of `for future in as_completed(futures)` and of the executor's
\* with block: every submitted future has been yielded.
AllJoined == joinedOk + joinedFail = nfiles

\* local_folder_path = tempfile.mkdtemp(); files = call_databricks_query(LIST)
FolderList ==
    /\ pc = "uf_list"
    /\ \E plan \in Plans, n \in 0..NumFiles :
          /\ q' = QRun(QNew("LIST", NoParams), plan)
          /\ nfiles' = IF q'.pc = "raised" THEN 0 ELSE n
    /\ issued' = Append(issued, <<"LIST", NoParams>>)
    /\ pc' = IF q'.pc = "raised" THEN "raised"
             ELSE IF nfiles' = 0 THEN "uf_join" ELSE "uf_submit"
    /\ raisedBy' = IF q'.pc = "raised" THEN "query" ELSE raisedBy
    /\ UNCHANGED <<op, ret, launcherVars, tableVars, tempFile,
                   nsub, task, scratch, joinedOk, joinedFail, uploaded>>

\* future = executor.submit(self.download_file_from_volume, ...)
Submit ==
    /\ pc = "uf_submit"
    /\ nsub < nfiles
    /\ nsub' = nsub + 1
    /\ task' = [task EXCEPT ![nsub + 1] = "queued"]
    /\ pc' = IF nsub + 1 = nfiles THEN "uf_join" ELSE pc
    /\ UNCHANGED <<op, ret, raisedBy, launcherVars, q, tableVars, issued,
                   tempFile, nfiles, scratch, joinedOk, joinedFail, uploaded>>

\* A pool worker takes the oldest queued work item.
TaskStart(k) ==
    /\ task[k] = "queued"
    /\ \A j \in 1..(k - 1) : task[j] # "queued"
    /\ HasIdleWorker
    /\ task' = [task EXCEPT ![k] = "running"]
    /\ UNCHANGED <<op, pc, ret, raisedBy, launcherVars, q, tableVars, issued,
                   tempFile, nfiles, nsub, scratch, joinedOk, joinedFail,
                   uploaded>>

\* download_file_from_volume on a worker: one GET through
\* call_databricks_query; the file is in the scratch folder once the GET
\* statement has executed, the future fails if the call raised.
TaskFinish(k) ==
    /\ task[k] = "running"
    /\ \E plan \in Plans :
          LET r == QRun(QNew("GET", NoParams), plan)
          IN  /\ scratch' = IF r.executed THEN scratch \cup {k} ELSE scratch
              /\ task' = [task EXCEPT ![k] =
                            IF r.pc = "returned" THEN "ok"
                            ELSE IF r.executed THEN "failed_late"
                            ELSE "failed"]
    /\ UNCHANGED <<op, pc, ret, raisedBy, launcherVars, q, tableVars, issued,
                   tempFile, nfiles, nsub, joinedOk, joinedFail, uploaded>>

\* One iteration of the as_completed loop on a future that returned.
JoinResult ==
    /\ pc = "uf_join"
    /\ joinedOk < Cardinality(Succeeded)
    /\ joinedOk' = joinedOk + 1
    /\ UNCHANGED <<op, pc, ret, raisedBy, launcherVars, q, tableVars, issued,
                   tempFile, nfiles, nsub, task, scratch, joinedFail, uploaded>>

\* One iteration of the as_completed loop on a future that raised.
JoinException ==
    /\ pc = "uf_join"
    /\ joinedFail < Cardinality(Completed \ Succeeded)
    /\ joinedFail' = joinedFail + 1
    /\ pc' = IF OnFutureResult(TRUE) = "raise" THEN "raised" ELSE pc
    /\ raisedBy' = IF OnFutureResult(TRUE) = "raise" THEN "download" ELSE raisedBy
    /\ UNCHANGED <<op, ret, launcherVars, q, tableVars, issued,
                   tempFile, nfiles, nsub, task, scratch, joinedOk, uploaded>>

\* dataset = dl.datasets.get(dataset_id=dataset_id), once the executor's
\* with block is left
GetDataset ==
    /\ pc = "uf_join"
    /\ AllJoined
    /\ \E found \in BOOLEAN :
          /\ pc' = IF found THEN "uf_upload" ELSE "raised"
          /\ raisedBy' = IF found THEN raisedBy ELSE "datasets.get"
    /\ UNCHANGED <<op, ret, launcherVars, q, tableVars, issued, tempFile,
                   folderVars>>

\* result = dataset.items.upload(local_path=local_folder_path, overwrite=True)
Upload ==
    /\ pc = "uf_upload"
    /\ uploaded' = scratch
    /\ ret' = "items"
    /\ pc' = "returned"
    /\ UNCHANGED <<op, raisedBy, launcherVars, q, tableVars, issued, tempFile,
                   nfiles, nsub, task, scratch, joinedOk, joinedFail>>

Next ==
    \/ Poll \/ StartCluster \/ SleepPoll
    \/ Create \/ Backoff
    \/ Connect \/ OpenCursor \/ Execute \/ Fetch \/ Commit
    \/ CloseCursor \/ ExitWith \/ Except
    \/ UpdateTableScan \/ UpdateTableQuery
    \/ UploadItemDownload \/ UploadItemPut \/ UploadItemRemove
    \/ FolderList \/ Submit
    \/ \E k \in Files : TaskStart(k)
    \/ \E k \in Files : TaskFinish(k)
    \/ JoinResult \/ JoinException \/ GetDataset \/ Upload

Spec == Init /\ [][Next]_vars

(***************************************************************************)
(*                              Properties                                 *)
(***************************************************************************)
Last(s) == s[Len(s)]
EnsureReturned == pc \in {"rt_create", "rt_backoff", "returned", "raised"}
NonTransitionalNonRunning(s) == s \notin {"RUNNING", "PENDING", "RESTARTING"}
AllTimeouts == [k \in 1..attempts |-> "timeout"]

\* C1: ensure_cluster_running has returned exactly when its most recent poll
\* observed RUNNING, and no poll follows a poll that observed RUNNING: it
\* never returns on PENDING, RESTARTING, TERMINATED or any other state, and
\* returns right after the first RUNNING without polling again.
C1_ReturnsOnlyOnRunning ==
    op = "run_train" =>
        /\ \A i \in 1..(Len(observed) - 1) : observed[i] # "RUNNING"
        /\ EnsureReturned <=> (observed # << >> /\ Last(observed) = "RUNNING")

\* C1 witness: [PENDING, PENDING, RUNNING] returns after the third poll.
C1_Witness ==
    /\ op = "run_train" /\ pc = "rt_create"
    /\ observed = <<"PENDING", "PENDING", "RUNNING">>
    /\ starts = << >> /\ sleeps = 2

\* C2: clusters.start is called exactly once for every poll that observed a
\* state other than RUNNING, PENDING and RESTARTING, before the next poll
\* (the call for the latest poll may still be due while the thread stands
\* between the poll and the start), and never for a poll that observed
\* PENDING, RESTARTING or RUNNING.
C2_OneStartPerNonTransitionalPoll ==
    op = "run_train" =>
        /\ \A j \in 1..Len(starts) : starts[j] \in 1..Len(observed)
        /\ \A i \in 1..Len(observed) :
              Cardinality({j \in 1..Len(starts) : starts[j] = i})
                = IF /\ NonTransitionalNonRunning(observed[i])
                     /\ ~(i = Len(observed) /\ pc = "ecr_start")
                  THEN 1 ELSE 0

\* C2 witness: [TERMINATED, RUNNING] gave exactly one start, then the return.
C2_Witness ==
    /\ op = "run_train" /\ pc = "rt_create"
    /\ observed = <<"TERMINATED", "RUNNING">>
    /\ starts = <<1>>

\* C3: run_train submits at most 3 times, every submission but the last
\* failed with a timeout, a successful submission ends the loop with a job
\* created, and a non-timeout error is raised to the caller at once; nothing
\* else makes run_train raise.
C3_BoundedRetryOnTimeoutOnly ==
    op = "run_train" =>
        /\ Len(creates) <= 3
        /\ \A k \in 1..(Len(creates) - 1) : creates[k] = "timeout"
        /\ creates # << >> =>
              /\ Last(creates) = "ok" => (pc = "returned" /\ job)
              /\ Last(creates) = "error" =>
                    (pc = "raised" /\ raisedBy = "fm.create" /\ ~job)
        /\ pc = "raised" => (creates # << >> /\ Last(creates) = "error")

\* C3 witness: a timeout was retried and the second attempt's non-timeout
\* error reached the caller.
C3_Witness ==
    /\ op = "run_train" /\ pc = "raised"
    /\ creates = <<"timeout", "error">>

\* C9: after 3 submissions that all timed out, run_train sleeps a third time
\* and returns normally: no job, nothing raised.
C9_ExhaustedRetriesReturnNormally ==
    (op = "run_train" /\ creates = AllTimeouts) =>
        \/ pc = "rt_backoff" /\ backoffs = 2
        \/ /\ pc = "returned" /\ backoffs = 3
           /\ ~job /\ ret = "None" /\ raisedBy = "none"

\* C9 witness: the run that timed out three times has returned.
C9_Witness ==
    /\ op = "run_train" /\ creates = AllTimeouts
    /\ pc = "returned" /\ ~job

\* C5: a call of call_databricks_query opens at most one connection, and no
\* connection is open once the call has returned or raised.
C5_ConnectionClosedOnEveryExit ==
    /\ q.opened <= 1
    /\ q.conn # "none" => q.opened = 1
    /\ q.pc \in QTerminal => q.conn # "open"

\* C5 witness: a call whose statement executed and which then failed (in
\* fetchall, commit or a close) has raised with its connection closed.
C5_Witness ==
    /\ op = "call_databricks_query" /\ q.pc = "raised"
    /\ q.executed /\ q.opened = 1 /\ q.conn = "closed"

\* C6: a call of call_databricks_query in which any driver error occurred
\* ends by raising RuntimeError whose cause is a driver error of that call;
\* a call that returns had no error and returns rows or a row count.
C6_ErrorsSurfaceAsRuntimeError ==
    q.pc \in QTerminal =>
        /\ q.occurred # {} <=> q.pc = "raised"
        /\ q.pc = "raised" =>
              /\ q.raisedType = "RuntimeError"
              /\ q.cause \in q.occurred
              /\ q.result = "none"
        /\ q.pc = "returned" =>
              /\ q.raisedType = "none"
              /\ q.result = IF IsRead(q.kw) THEN "rows" ELSE "rowcount"

\* C6 witness: an execution error after a successful connect reached the
\* caller as RuntimeError.
C6_Witness ==
    /\ op = "call_databricks_query" /\ pc = "raised"
    /\ q.opened = 1 /\ q.cause = "ServerOperationError"
    /\ q.raisedType = "RuntimeError"

BestMatches ==
    {i \in 1..Len(anns) :
        anns[i].attrs = "best" /\ anns[i].promptId = first_prompt_key}
UpdateTableEnded == op = "update_table" /\ pc \in {"returned", "raised"}

\* C7: update_table never issues more than one statement; with no annotation
\* flagged best for the first prompt's key it returns None and issues
\* nothing; with exactly one it issues one UPDATE whose params are
\* (response, model_id, name, row id) of that annotation and of the row the
\* item was created from.
C7_OneUpdateForTheBestAnnotation ==
    op = "update_table" =>
        /\ Len(issued) <= 1
        /\ (UpdateTableEnded /\ BestMatches = {}) =>
              (issued = << >> /\ ret = "None" /\ pc = "returned")
        /\ (UpdateTableEnded /\ Cardinality(BestMatches) = 1) =>
              \E i \in BestMatches, id \in RowIds :
                 /\ itemName = ItemName(id)
                 /\ issued = << <<"UPDATE",
                                  <<anns[i].coordinates, ModelId(anns[i]),
                                    ModelName(anns[i]), id>> >> >>

\* C7 witness: the single matching best annotation came second, after an
\* annotation flagged best for another prompt, and the UPDATE succeeded.
C7_Witness ==
    /\ UpdateTableEnded /\ ret = "item"
    /\ Len(anns) = 2 /\ BestMatches = {2}
    /\ anns[1].attrs = "best" /\ anns[1].promptId = "k2"
    /\ Len(issued) = 1

\* C8: when upload_item_to_volume has ended, by return or by raise, the
\* file item.download wrote is gone.
C8_TempFileDeletedOnEveryExit ==
    (op = "upload_item_to_volume" /\ pc \in {"returned", "raised"}) =>
        tempFile = "absent"

FolderOp == op = "upload_dbrx_folder_to_dtlp"
Batch == 1..nfiles

\* C4: upload_dbrx_folder_to_dtlp raises only when LIST or the dataset
\* lookup fails, never because downloads failed; when it returns, every
\* download of the batch has ended and the bulk upload holds exactly the
\* files of the batch that were downloaded into the scratch folder: all N
\* but the K whose GET delivered nothing.
C4_PartialBatchIsUploaded ==
    FolderOp =>
        /\ pc = "raised" => raisedBy \in {"query", "datasets.get"}
        /\ (pc = "raised" /\ raisedBy = "query") => nsub = 0
        /\ pc = "returned" =>
              /\ \A k \in Batch : task[k] \in TaskTerminal
              /\ uploaded = {k \in Batch : task[k] \in {"ok", "failed_late"}}
              /\ Cardinality(uploaded)
                    = nfiles - Cardinality({k \in Batch : task[k] = "failed"})

\* C4 witness: a batch with failed and successful downloads was uploaded.
C4_Witness ==
    /\ FolderOp /\ pc = "returned" /\ nfiles >= 3
    /\ \E k \in Batch : task[k] = "failed"
    /\ \E k \in Batch : task[k] = "ok"
    /\ Cardinality(uploaded) = nfiles - 1

\* C10: at most 5 downloads run at any time, and once the calling thread is
\* past the executor block (looking up the dataset, uploading, returned)
\* every download of the batch has succeeded or failed.
C10_JoinBarrierAndPoolBound ==
    FolderOp =>
        /\ Cardinality({k \in Files : task[k] = "running"}) <= 5
        /\ (pc \in {"uf_upload", "returned"} \/ raisedBy = "datasets.get") =>
              \A k \in Batch : task[k] \in TaskTerminal

\* C10 witness: a batch larger than the pool, with a failed download, has
\* passed the barrier.
C10_Witness ==
    /\ FolderOp /\ pc = "uf_upload" /\ nfiles > 5
    /\ \E k \in Batch : task[k] = "failed"

=============================================================================
